---- MODULE Spec2Model ----
(***************************************************************************)
(* Model of openmc/deplete/pool.py: PoolShim, DepletionDispatcher and the  *)
(* module-level deplete().                                                 *)
(*                                                                         *)
(* The callables handed to deplete (the matrix builder and the integration *)
(* function func) are opaque to the dispatcher, so a call of one of them   *)
(* is modelled by the term it is applied to: a record naming the callable  *)
(* and its arguments.  Two results are equal exactly when the same         *)
(* deterministic callable was applied to the same arguments.               *)
(*                                                                         *)
(* The lazy iterators of the code (map, zip, repeat, itertools.starmap)    *)
(* are modelled by the number of elements consumed from each underlying    *)
(* sequence; an element is produced only when it is pulled.                *)
(***************************************************************************)
EXTENDS Integers, Sequences, FiniteSets, TLC

\* Bounds of the model.
MaxMat == 2        \* longest list x of atom number vectors
MaxRates == 2      \* longest reaction rates sequence
MaxYields == 2     \* longest chain.fission_yields

VARIABLES
    pool_class,    \* DepletionDispatcher._pool_class of the two dispatchers
    args,          \* the arguments of the most recent deplete call
    entry,         \* the entry point of the most recent call
    pc,            \* position of the running call: idle, enter, starmap, workers, exit
    pool,          \* the executor class of the running call
    matrix_func,   \* matrix_func as DepletionDispatcher.deplete received it
    broadcast,     \* TRUE when fission_yields was replaced by repeat(fission_yields[0])
    ri, yi, xi,    \* elements consumed from rates, fission_yields and x
    inputs,        \* Pool.starmap: the tuples collected from the zip iterator
    task,          \* Pool.starmap: state of each dispatched task
    slots,         \* Pool.starmap: the result list the workers fill by index
    acc,           \* PoolShim: the list being built by list(starmap(...))
    x_result,      \* the local x_result, a set holding the list once assigned
    err,           \* the exception in flight, or "none"
    trace,         \* calls of the matrix builder and of func made by the call
    last,          \* outcome of the last call of each entry point on args
    held,          \* number of executors entered and not yet exited
    callAcq, callRel   \* executors entered and exited by the most recent call

vars == <<pool_class, args, entry, pc, pool, matrix_func, broadcast, ri, yi, xi,
          inputs, task, slots, acc, x_result, err, trace, last,
          held, callAcq, callRel>>

(***************************************************************************)
(* Inputs.                                                                 *)
(***************************************************************************)
\* The two dispatchers the model keeps, by the flag they were built with.
Flags == {"True", "False"}
\* Entry points: a dispatcher's deplete method, or the module-level deplete.
Entries == Flags \cup {"oneshot"}

\* Element k of each input sequence has a value found nowhere else.
XVec(n) == [k \in 1..n |-> 100 + k]
RatesOf(n) == [k \in 1..n |-> 200 + k]
YieldsOf(n) == [k \in 1..n |-> 300 + k]

\* buildFail / funcFail: the position of the reaction rates element for which
\* the matrix builder raises, and of the atom vector for which func raises
\* (0: the callable never raises).
ArgSet ==
    UNION { UNION { { [x |-> XVec(n), rates |-> RatesOf(r),
                       fission_yields |-> YieldsOf(l), dt |-> 10,
                       matrix_func |-> m, buildFail |-> bf, funcFail |-> ff] :
                      l \in 0..MaxYields, m \in {"None", "custom"},
                      bf \in 0..r, ff \in 0..n }
                  : r \in 0..MaxRates }
          : n \in 0..MaxMat }

NoArgs == [x |-> <<>>, rates |-> <<>>, fission_yields |-> <<>>, dt |-> 10,
           matrix_func |-> "None", buildFail |-> 0, funcFail |-> 0]

NoOutcome == [status |-> "none", ret |-> {}, error |-> "none"]

(***************************************************************************)
(* DepletionDispatcher.__init__                                            *)
(***************************************************************************)
\* Faulty variant: the condition of the conditional expression is inverted.
PoolClassOfInverted(use_multiprocessing) ==
    IF use_multiprocessing = "False" THEN "Pool" ELSE "PoolShim"

\* Python truth value of what is passed as use_multiprocessing: the booleans,
\* or the class object Pool that the module-level deplete passes.
Truthy(v) == v # "False"

PoolClassOf(use_multiprocessing) ==
    IF Truthy(use_multiprocessing) THEN "Pool" ELSE "PoolShim"

(***************************************************************************)
(* The callables.                                                          *)
(***************************************************************************)
\* chain.form_matrix(rates, fission_yields), or
\* matrix_func(chain, rates, fission_yields)
Matrix(mf, r, y) ==
    [fn |-> IF mf = "None" THEN "chain.form_matrix" ELSE "matrix_func",
     chain |-> "chain", rates |-> r, fy |-> y]

\* func(A, n0, t)
FuncVal(item) == [A |-> item[1], n0 |-> item[2], t |-> item[3]]

BuildEvent(m, raised) == [op |-> "build", call |-> m, raised |-> raised]
FuncEvent(item, raised) == [op |-> "func", call |-> FuncVal(item), raised |-> raised]

(***************************************************************************)
(* Lines 82-89: resolution of the fission yields.                          *)
(***************************************************************************)
\* Faulty variant: the length test rejects only a table that is too short.
ResolveYieldsShort(fission_yields, x) ==
    IF Len(fission_yields) = 1 THEN "repeat"
    ELSE IF Len(fission_yields) < Len(x) THEN "ValueError"
    ELSE "list"

ResolveYields(fission_yields, x) ==
    IF Len(fission_yields) = 1 THEN "repeat"
    ELSE IF Len(fission_yields) # Len(x) THEN "ValueError"
    ELSE "list"

(***************************************************************************)
(* Lines 91-94: next(matrices), matrices = map(builder, rates, yields).    *)
(* map pulls one element of each iterable, left to right, and stops at the *)
(* first that is exhausted; then it calls the builder.                     *)
(***************************************************************************)
\* Faulty variant: the broadcast entry is handed out in the per-material case too.
YieldForFirst(fy, bc, y) == fy[1]

\* next(fission_yields): repeat(fission_yields[0]) yields entry 0 for ever,
\* the list itself yields the entry after the y consumed so far.
YieldFor(fy, bc, y) == IF bc THEN fy[1] ELSE fy[y + 1]

MapNext(a, mf, bc, r, y) ==
    IF r >= Len(a.rates) THEN [kind |-> "stop", ri |-> r, yi |-> y, builds |-> <<>>]
    ELSE IF ~bc /\ y >= Len(a.fission_yields)
         THEN [kind |-> "stop", ri |-> r + 1, yi |-> y, builds |-> <<>>]
    ELSE LET yld == YieldFor(a.fission_yields, bc, y)
             m == Matrix(mf, a.rates[r + 1], yld)
             raised == (a.buildFail = r + 1)
         IN [kind |-> IF raised THEN "raise" ELSE "item",
             ri |-> r + 1, yi |-> IF bc THEN y ELSE y + 1,
             builds |-> <<BuildEvent(m, raised)>>, matrix |-> m]

(***************************************************************************)
(* Line 98: next(inputs), inputs = zip(matrices, x, repeat(dt)).           *)
(* zip pulls matrices first, then x; it stops at the first exhausted one,  *)
(* dropping what it already pulled.                                        *)
(***************************************************************************)
\* Faulty variant: zip(x, matrices, ...): x is pulled before the matrix is built.
ZipNextXFirst(a, mf, bc, r, y, xn) ==
    IF xn >= Len(a.x)
    THEN [kind |-> "stop", ri |-> r, yi |-> y, xi |-> xn, builds |-> <<>>]
    ELSE LET m == MapNext(a, mf, bc, r, y) IN
         IF m.kind # "item"
         THEN [kind |-> m.kind, ri |-> m.ri, yi |-> m.yi, xi |-> xn + 1,
               builds |-> m.builds]
         ELSE [kind |-> "item", ri |-> m.ri, yi |-> m.yi, xi |-> xn + 1,
               builds |-> m.builds, item |-> <<m.matrix, a.x[xn + 1], a.dt>>]

\* Faulty variant: a strict zip, which raises when its iterables differ in length.
ZipNextStrict(a, mf, bc, r, y, xn) ==
    LET m == MapNext(a, mf, bc, r, y) IN
    IF m.kind = "raise"
    THEN [kind |-> "raise", ri |-> m.ri, yi |-> m.yi, xi |-> xn, builds |-> m.builds]
    ELSE IF m.kind = "stop"
    THEN [kind |-> IF xn < Len(a.x) THEN "raise" ELSE "stop",
          ri |-> m.ri, yi |-> m.yi, xi |-> xn, builds |-> m.builds]
    ELSE IF xn >= Len(a.x)
    THEN [kind |-> "raise", ri |-> m.ri, yi |-> m.yi, xi |-> xn, builds |-> m.builds]
    ELSE [kind |-> "item", ri |-> m.ri, yi |-> m.yi, xi |-> xn + 1,
          builds |-> m.builds, item |-> <<m.matrix, a.x[xn + 1], a.dt>>]

ZipNext(a, mf, bc, r, y, xn) ==
    LET m == MapNext(a, mf, bc, r, y) IN
    IF m.kind # "item"
    THEN [kind |-> m.kind, ri |-> m.ri, yi |-> m.yi, xi |-> xn, builds |-> m.builds]
    ELSE IF xn >= Len(a.x)
    THEN [kind |-> "stop", ri |-> m.ri, yi |-> m.yi, xi |-> xn, builds |-> m.builds]
    ELSE [kind |-> "item", ri |-> m.ri, yi |-> m.yi, xi |-> xn + 1,
          builds |-> m.builds, item |-> <<m.matrix, a.x[xn + 1], a.dt>>]

\* func raises for the tuple holding atom vector number a.funcFail
FuncRaises(a, item) ==
    a.funcFail > 0 /\ a.funcFail <= Len(a.x) /\ item[2] = a.x[a.funcFail]

(***************************************************************************)
(* Initial state: two dispatchers constructed, no call made.               *)
(***************************************************************************)
Init ==
    /\ pool_class = [u \in Flags |-> PoolClassOf(u)]
    /\ args = NoArgs
    /\ entry = "False"
    /\ pc = "idle"
    /\ pool = "PoolShim"
    /\ matrix_func = "None"
    /\ broadcast = FALSE
    /\ ri = 0 /\ yi = 0 /\ xi = 0
    /\ inputs = <<>>
    /\ task = <<>>
    /\ slots = <<>>
    /\ acc = <<>>
    /\ x_result = {}
    /\ err = "none"
    /\ trace = <<>>
    /\ last = [e \in Entries |-> NoOutcome]
    /\ held = 0
    /\ callAcq = 0 /\ callRel = 0

(***************************************************************************)
(* DepletionDispatcher.deplete, lines 82-94: validation and the lazy map.  *)
(* who is the entry point, cls the dispatcher's _pool_class and mf the     *)
(* matrix_func the method receives; the other arguments are in args.       *)
(***************************************************************************)
Raised(e) == [status |-> "raised", ret |-> {}, error |-> e]

\* The caller turns to other arguments: what is remembered of the calls made
\* on the previous ones is dropped.
Prepare(a) ==
    /\ pc = "idle"
    /\ a # args
    /\ args' = a
    /\ last' = [e \in Entries |-> NoOutcome]
    /\ ri' = 0 /\ yi' = 0 /\ xi' = 0
    /\ inputs' = <<>> /\ task' = <<>> /\ slots' = <<>> /\ acc' = <<>>
    /\ x_result' = {}
    /\ err' = "none"
    /\ trace' = <<>>
    /\ callAcq' = 0 /\ callRel' = 0
    /\ entry' = "False" /\ pool' = "PoolShim"
    /\ matrix_func' = "None" /\ broadcast' = FALSE
    /\ UNCHANGED <<pool_class, pc, held>>

DepleteBegin(who, cls, mf) ==
    /\ pc = "idle"
    /\ entry' = who
    /\ pool' = cls
    /\ matrix_func' = mf
    /\ ri' = 0 /\ yi' = 0 /\ xi' = 0
    /\ inputs' = <<>> /\ task' = <<>> /\ slots' = <<>> /\ acc' = <<>>
    /\ x_result' = {}
    /\ trace' = <<>>
    /\ callAcq' = 0 /\ callRel' = 0
    /\ LET res == ResolveYields(args.fission_yields, args.x)
       IN IF res = "ValueError"
          THEN /\ err' = "ValueError"
               /\ broadcast' = FALSE
               /\ last' = [last EXCEPT ![who] = Raised("ValueError")]
               /\ pc' = "idle"
          ELSE /\ err' = "none"
               /\ broadcast' = (res = "repeat")
               /\ last' = [last EXCEPT ![who] = NoOutcome]
               /\ pc' = "enter"
    /\ UNCHANGED <<pool_class, args, held>>

\* A call of dispatcher.deplete(func, chain, x, rates, dt, matrix_func)
DispatcherDeplete(u) ==
    DepleteBegin(u, pool_class[u], args.matrix_func)

\* Lines 104-140: deplete(func, chain, x, rates, dt, matrix_func) calls
\* DepletionDispatcher(Pool).deplete(func, chain, x, rates, dt, matrix_func=None)
OneShotDeplete ==
    DepleteBegin("oneshot", PoolClassOf("Pool"), "None")

(***************************************************************************)
(* Line 97: with self._pool_class() as pool                                *)
(***************************************************************************)
PoolEnter ==
    /\ pc = "enter"
    /\ held' = held + 1
    /\ callAcq' = callAcq + 1
    /\ pc' = "starmap"
    /\ UNCHANGED <<pool_class, args, entry, pool, matrix_func, broadcast, ri, yi, xi,
                   inputs, task, slots, acc, x_result, err, trace, last,
                   callRel>>

(***************************************************************************)
(* Lines 27-29 and 99: list(PoolShim.starmap(func, inputs)).  Each step    *)
(* is one next() of itertools.starmap: pull a tuple from inputs, call func.*)
(***************************************************************************)
ShimNext ==
    /\ pc = "starmap"
    /\ pool = "PoolShim"
    /\ LET z == ZipNext(args, matrix_func, broadcast, ri, yi, xi) IN
       /\ ri' = z.ri /\ yi' = z.yi /\ xi' = z.xi
       /\ CASE z.kind = "stop" ->
                 /\ x_result' = {acc}
                 /\ trace' = trace \o z.builds
                 /\ pc' = "exit"
                 /\ UNCHANGED <<acc, err>>
            [] z.kind = "raise" ->
                 /\ err' = "BuilderError"
                 /\ trace' = trace \o z.builds
                 /\ pc' = "exit"
                 /\ UNCHANGED <<acc, x_result>>
            [] z.kind = "item" ->
                 LET bad == FuncRaises(args, z.item) IN
                 /\ trace' = (trace \o z.builds) \o <<FuncEvent(z.item, bad)>>
                 /\ IF bad
                    THEN /\ err' = "FuncError"
                         /\ pc' = "exit"
                         /\ UNCHANGED <<acc, x_result>>
                    ELSE /\ acc' = Append(acc, FuncVal(z.item))
                         /\ UNCHANGED <<pc, err, x_result>>
    /\ UNCHANGED <<pool_class, args, entry, pool, matrix_func, broadcast,
                   inputs, task, slots, last,
                   held, callAcq, callRel>>

(***************************************************************************)
(* Line 99 with multiprocessing.Pool: starmap first turns the iterable     *)
(* into a list in the calling process (one pull per step), then hands the  *)
(* tuples to the workers, which finish in any order and store each result  *)
(* at the index of its tuple; get() returns the list once every task is    *)
(* done and raises when a task failed.                                     *)
(***************************************************************************)
PoolCollect ==
    /\ pc = "starmap"
    /\ pool = "Pool"
    /\ LET z == ZipNext(args, matrix_func, broadcast, ri, yi, xi) IN
       /\ ri' = z.ri /\ yi' = z.yi /\ xi' = z.xi
       /\ trace' = trace \o z.builds
       /\ CASE z.kind = "stop" ->
                 /\ task' = [i \in 1..Len(inputs) |-> "pending"]
                 /\ slots' = [i \in 1..Len(inputs) |-> {}]
                 /\ pc' = "workers"
                 /\ UNCHANGED <<inputs, err>>
            [] z.kind = "raise" ->
                 /\ err' = "BuilderError"
                 /\ pc' = "exit"
                 /\ UNCHANGED <<inputs, task, slots>>
            [] z.kind = "item" ->
                 /\ inputs' = Append(inputs, z.item)
                 /\ UNCHANGED <<pc, err, task, slots>>
    /\ UNCHANGED <<pool_class, args, entry, pool, matrix_func, broadcast,
                   acc, x_result, last,
                   held, callAcq, callRel>>

\* Faulty variant: results are kept in the order the workers deliver them.
StoreResultArrival(s, i, v) ==
    LET k == CHOOSE j \in 1..Len(s) :
                 s[j] = {} /\ \A h \in 1..(j - 1) : s[h] # {}
    IN [s EXCEPT ![k] = {v}]

\* The result of task i is stored at index i of the result list.
StoreResult(s, i, v) == [s EXCEPT ![i] = {v}]

WorkerRun(i) ==
    /\ pc = "workers"
    /\ i \in 1..Len(inputs)
    /\ task[i] = "pending"
    /\ LET bad == FuncRaises(args, inputs[i]) IN
       /\ trace' = Append(trace, FuncEvent(inputs[i], bad))
       /\ IF bad
          THEN /\ task' = [task EXCEPT ![i] = "failed"]
               /\ UNCHANGED slots
          ELSE /\ task' = [task EXCEPT ![i] = "done"]
               /\ slots' = StoreResult(slots, i, FuncVal(inputs[i]))
    /\ UNCHANGED <<pool_class, args, entry, pc, pool, matrix_func, broadcast, ri, yi, xi,
                   inputs, acc, x_result, err, last,
                   held, callAcq, callRel>>

\* get() has a result to return: every task is done.
PoolReady(t) == \A i \in 1..Len(t) : t[i] = "done"

\* get() has an exception to raise: a task failed.
PoolFailed(t) == \E i \in 1..Len(t) : t[i] = "failed"

PoolGet ==
    /\ pc = "workers"
    /\ \/ /\ PoolReady(task)
          /\ x_result' = {[i \in 1..Len(slots) |-> CHOOSE v \in slots[i] : TRUE]}
          /\ UNCHANGED err
       \/ /\ PoolFailed(task)
          /\ err' = "FuncError"
          /\ UNCHANGED x_result
    /\ pc' = "exit"
    /\ UNCHANGED <<pool_class, args, entry, pool, matrix_func, broadcast, ri, yi, xi,
                   inputs, task, slots, acc, trace, last,
                   held, callAcq, callRel>>

(***************************************************************************)
(* Lines 97-101: the with block is left (PoolShim.__exit__, lines 24-25,   *)
(* or Pool.__exit__), then x_result is returned or the exception goes on   *)
(* to the caller.                                                          *)
(***************************************************************************)
\* Faulty variant: the executor is released on the success path only.
ExitReleasesOnSuccess(e) == IF e = "none" THEN 1 ELSE 0

\* Faulty variant: the exception is swallowed and what was computed so far returned.
OutcomePartial(e, xr, partial) ==
    [status |-> "returned", ret |-> IF e = "none" THEN xr ELSE {partial},
     error |-> "none"]

\* Number of executors released when the with block is left with error e.
ExitReleases(e) == 1

\* What the caller gets: the returned list, or the exception.
Outcome(e, xr, partial) ==
    IF e = "none" THEN [status |-> "returned", ret |-> xr, error |-> "none"]
    ELSE Raised(e)

PoolExit ==
    /\ pc = "exit"
    /\ held' = held - ExitReleases(err)
    /\ callRel' = callRel + ExitReleases(err)
    /\ last' = [last EXCEPT ![entry] = Outcome(err, x_result, acc)]
    /\ pc' = "idle"
    /\ UNCHANGED <<pool_class, args, entry, pool, matrix_func, broadcast, ri, yi, xi,
                   inputs, task, slots, acc, x_result, err, trace,
                   callAcq>>

Next ==
    \/ \E a \in ArgSet : Prepare(a)
    \/ \E u \in Flags : DispatcherDeplete(u)
    \/ OneShotDeplete
    \/ PoolEnter
    \/ ShimNext
    \/ PoolCollect
    \/ \E i \in 1..MaxMat : WorkerRun(i)
    \/ PoolGet
    \/ PoolExit

Spec == Init /\ [][Next]_vars

(***************************************************************************)
(* Properties.                                                             *)
(***************************************************************************)
\* Calls of the matrix builder and of func made by the most recent call,
\* each in the order they were made.
BuildCalls == SelectSeq(trace, LAMBDA ev : ev.op = "build")
FuncCalls == SelectSeq(trace, LAMBDA ev : ev.op = "func")

\* The most recent call has returned or raised.
Completed == pc = "idle" /\ last[entry].status # "none"

\* The fission yield entry material k is to use.
YieldOfMaterial(k) ==
    IF Len(args.fission_yields) = 1 THEN args.fission_yields[1]
    ELSE args.fission_yields[k]

\* The matrix of material k, built by the builder named fn.
MatrixOfMaterial(fn, k) ==
    [fn |-> fn, chain |-> "chain", rates |-> args.rates[k], fy |-> YieldOfMaterial(k)]

BuilderOf(mf) == IF mf = "None" THEN "chain.form_matrix" ELSE "matrix_func"

LengthsBad ==
    Len(args.fission_yields) # 1 /\ Len(args.fission_yields) # Len(args.x)

MinLen == IF Len(args.x) <= Len(args.rates) THEN Len(args.x) ELSE Len(args.rates)

\* C1: a list returned by a dispatcher's deplete, parallel or serial, holds at
\* position i the value func(matrix_i, x[i], dt), whatever the order in which
\* the workers finished; it has an entry for every atom vector when there are
\* reaction rates for each of them.
C1_ResultOrder ==
    \A u \in Flags : last[u].status = "returned" =>
        \A res \in last[u].ret :
            /\ \A i \in 1..Len(res) :
                   /\ i <= Len(args.x) /\ i <= Len(args.rates)
                   /\ res[i] = [A |-> MatrixOfMaterial(BuilderOf(args.matrix_func), i),
                                n0 |-> args.x[i], t |-> args.dt]
            /\ (Len(args.rates) >= Len(args.x) => Len(res) = Len(args.x))

\* The parallel dispatcher returned two results whose func calls were made
\* in the reverse of the input order.
C1_Witness ==
    /\ Completed /\ entry = "True" /\ last["True"].status = "returned"
    /\ Len(FuncCalls) = 2
    /\ FuncCalls[1].call.n0 = args.x[2]
    /\ FuncCalls[2].call.n0 = args.x[1]

\* C2: deplete raises ValueError exactly when the fission yield table has
\* neither one entry nor len(x) entries, and then the matrix builder and func
\* were never called and no executor was entered.
C2_ValidationError ==
    /\ \A e \in Entries : last[e].status # "none" =>
           (last[e].error = "ValueError" <=> LengthsBad)
    /\ LengthsBad => pc = "idle" /\ trace = <<>> /\ callAcq = 0 /\ held = 0

\* A call was refused although there were reaction rates and atom vectors
\* to work on.
C2_Witness ==
    /\ Completed /\ last[entry].error = "ValueError"
    /\ Len(args.rates) > 0 /\ Len(args.x) > 0

\* C3: the k-th call of the matrix builder is made with reaction rates
\* element k and with the single yield entry (table of length 1) or yield
\* entry k (table of length N); the builder is chain.form_matrix, or
\* matrix_func with the chain as first argument when one was given.
C3_YieldPairing ==
    \A k \in 1..Len(BuildCalls) :
        /\ k <= Len(args.rates)
        /\ Len(args.fission_yields) # 1 => k <= Len(args.fission_yields)
        /\ BuildCalls[k].call = MatrixOfMaterial(BuilderOf(matrix_func), k)

\* Two matrices were built by a custom matrix_func from a per-material table.
C3_Witness ==
    /\ Completed /\ last[entry].status = "returned"
    /\ matrix_func = "custom"
    /\ Len(args.fission_yields) = 2
    /\ Len(BuildCalls) = 2

\* The same pairing on the broadcast path, with the default builder.
C3_WitnessBroadcast ==
    /\ Completed /\ last[entry].status = "returned"
    /\ matrix_func = "None"
    /\ Len(args.fission_yields) = 1
    /\ Len(BuildCalls) = 2

\* C4: the dispatcher built with use_multiprocessing=True and the one built
\* with use_multiprocessing=False, called with the same arguments, both
\* return the same list or both raise.
C4_SerialParallelEquivalent ==
    (last["True"].status # "none" /\ last["False"].status # "none") =>
        /\ last["True"].status = last["False"].status
        /\ last["True"].ret = last["False"].ret

\* Both dispatchers returned a list of two results for the same arguments.
C4_Witness ==
    /\ last["True"].status = "returned" /\ last["False"].status = "returned"
    /\ \E res \in last["True"].ret : Len(res) = 2

\* Both dispatchers raised, for different reasons: the serial one on func for
\* the first material, the parallel one on the builder for the second.
C4_WitnessRaise ==
    /\ last["True"].status = "raised" /\ last["False"].status = "raised"
    /\ last["True"].error = "BuilderError" /\ last["False"].error = "FuncError"

\* C5: a call enters at most one executor and has left it when it returns or
\* raises; between calls no executor is held, whatever calls came before.
C5_ExecutorReleased ==
    /\ callAcq \in {0, 1}
    /\ callRel <= callAcq
    /\ held = callAcq - callRel
    /\ pc = "idle" => callRel = callAcq /\ held = 0
    /\ pc \in {"starmap", "workers", "exit"} => callAcq = 1 /\ callRel = 0

\* func raised part way through the batch, after a result had been computed,
\* and the executor was released.
C5_Witness ==
    /\ Completed /\ last[entry].error = "FuncError"
    /\ Len(acc) >= 1
    /\ callAcq = 1 /\ callRel = 1 /\ held = 0

\* The matrix builder raised and the executor was released.
C5_WitnessBuilder ==
    /\ Completed /\ last[entry].error = "BuilderError"
    /\ callAcq = 1 /\ callRel = 1 /\ held = 0

\* C6: the module-level deplete and a dispatcher built for parallel execution,
\* called with the same six arguments, have the same outcome.
C6_OneShotEquivalent ==
    (last["oneshot"].status # "none" /\ last["True"].status # "none") =>
        /\ last["oneshot"].status = last["True"].status
        /\ last["oneshot"].ret = last["True"].ret

\* The module-level deplete uses the executor class of the dispatcher built
\* with use_multiprocessing=True, and agrees with that dispatcher whenever
\* no matrix_func is given.
C6_OneShotDefaultBuilder ==
    /\ PoolClassOf("Pool") = pool_class["True"]
    /\ (/\ args.matrix_func = "None"
        /\ last["oneshot"].status # "none"
        /\ last["True"].status # "none") =>
           /\ last["oneshot"].status = last["True"].status
           /\ last["oneshot"].ret = last["True"].ret

\* C7: a call either returns a list in which every tuple handed to the
\* executor has been integrated, no task pending and no call having raised,
\* or it raises and returns nothing; an exception of the builder or of func
\* makes the call raise, and no call of either is ever repeated.
C7_AllOrNothing ==
    /\ \A e \in Entries :
           /\ last[e].status = "returned" =>
                  Cardinality(last[e].ret) = 1 /\ last[e].error = "none"
           /\ last[e].status = "raised" =>
                  last[e].ret = {} /\ last[e].error # "none"
    /\ \A p, q \in 1..Len(trace) : p # q => trace[p] # trace[q]
    /\ (Completed /\ last[entry].status = "returned") =>
           /\ \A i \in 1..Len(trace) : ~trace[i].raised
           /\ \A i \in 1..Len(task) : task[i] = "done"
           /\ \A res \in last[entry].ret :
                  /\ Len(res) = Len(FuncCalls)
                  /\ Len(res) = xi
                  /\ \A i \in 1..Len(res) :
                         \E k \in 1..Len(FuncCalls) : FuncCalls[k].call = res[i]
    /\ (Completed /\ \E i \in 1..Len(trace) : trace[i].raised) =>
           /\ last[entry].status = "raised"
           /\ last[entry].error \in {"BuilderError", "FuncError"}

\* The parallel call raised after a worker had delivered a result, which the
\* caller never sees.
C7_Witness ==
    /\ Completed /\ entry = "True" /\ last["True"].status = "raised"
    /\ last["True"].error = "FuncError"
    /\ \E i \in 1..Len(slots) : slots[i] # {}

\* C8 as stated: no call of the matrix builder follows a call of func, in
\* either variant.
C8_BuildPhaseFirst ==
    \A p, q \in 1..Len(trace) :
        (p < q /\ trace[p].op = "func") => trace[q].op # "build"

\* C8 as amended: every call of func comes after the call of the builder that
\* made its matrix.  With the parallel executor no call of the builder follows
\* a call of func; with the serial executor each call of func comes right
\* after the call of the builder that made its matrix, so builder and func
\* calls alternate.
C8_BuildBeforeOwnFunc ==
    /\ \A q \in 1..Len(trace) : trace[q].op = "func" =>
           \E p \in 1..(q - 1) :
               trace[p].op = "build" /\ trace[p].call = trace[q].call.A
    /\ (pc # "idle" \/ Completed) =>
           /\ entry \in {"True", "oneshot"} =>
                  \A p, q \in 1..Len(trace) :
                      (p < q /\ trace[p].op = "func") => trace[q].op # "build"
           /\ entry = "False" =>
                  \A q \in 1..Len(trace) : trace[q].op = "func" =>
                      /\ q > 1
                      /\ trace[q - 1].op = "build"
                      /\ trace[q - 1].call = trace[q].call.A

\* The serial dispatcher built the second matrix after integrating the first
\* material.
C8_Witness ==
    /\ Completed /\ entry = "False" /\ last["False"].status = "returned"
    /\ Len(trace) >= 3
    /\ trace[2].op = "func" /\ trace[3].op = "build"

\* C9 as stated: in a call that returns, the builder was called once per
\* material in ascending order, and the builder calls, the func calls and the
\* results are equal in number.
C9_OneBuildPerResult ==
    (Completed /\ last[entry].status = "returned") =>
        \A res \in last[entry].ret :
            /\ Len(BuildCalls) = Len(FuncCalls)
            /\ Len(FuncCalls) = Len(res)
            /\ \A k \in 1..Len(BuildCalls) : BuildCalls[k].call.rates = args.rates[k]

\* C9 as amended: in a call that returns, the builder was called for the
\* reaction rates elements 1, 2, ... in this order, once each; every result
\* is the one func call made on the matrix of its position; and there is one
\* builder call more than results, made for reaction rates element len(x)+1
\* and never integrated, exactly when the yield table has a single entry and
\* there are more reaction rates elements than atom vectors.
C9_BuildCount ==
    (Completed /\ last[entry].status = "returned") =>
        \A res \in last[entry].ret :
            LET extra == IF Len(args.fission_yields) = 1
                            /\ Len(args.rates) > Len(args.x)
                         THEN 1 ELSE 0
            IN /\ Len(FuncCalls) = Len(res)
               /\ Len(BuildCalls) = Len(res) + extra
               /\ \A k \in 1..Len(BuildCalls) :
                      BuildCalls[k].call.rates = args.rates[k]
               /\ \A k \in 1..Len(res) :
                      Cardinality({j \in 1..Len(FuncCalls) :
                                     FuncCalls[j].call.A = BuildCalls[k].call}) = 1
               /\ extra = 1 =>
                      \A j \in 1..Len(FuncCalls) :
                          FuncCalls[j].call.A # BuildCalls[Len(res) + 1].call

\* A call returned one result after building two matrices.
C9_Witness ==
    /\ Completed /\ last[entry].status = "returned"
    /\ Len(args.x) = 1 /\ Len(args.rates) = 2 /\ Len(args.fission_yields) = 1
    /\ Len(BuildCalls) = 2 /\ Len(FuncCalls) = 1

\* C10: a call that passes validation and in which neither callable raises
\* returns, and the list it returns has min(len(x), len(rates)) entries.
C10_ResultLength ==
    \A e \in Entries : last[e].status # "none" =>
        /\ last[e].status = "returned" =>
               \A res \in last[e].ret : Len(res) = MinLen
        /\ last[e].status = "raised" =>
               \/ LengthsBad
               \/ args.buildFail \in 1..Len(args.rates)
               \/ args.funcFail \in 1..Len(args.x)

\* A call with two atom vectors and one reaction rates element returned a
\* single result.
C10_Witness ==
    /\ Completed /\ last[entry].status = "returned"
    /\ Len(args.x) = 2 /\ Len(args.rates) = 1
    /\ \E res \in last[entry].ret : Len(res) = 1

====
